---------------------------- MODULE Spec2Model ----------------------------
(***************************************************************************)
(* Telemetry ingestion and power derivation of carbon-kepler-mcp:          *)
(*   prometheus_parser.py  parse_prometheus_text, filter_metrics,          *)
(*                         aggregate_metrics                               *)
(*   kepler_client.py      KeplerMetricsCache, KeplerClient.fetch_metrics, *)
(*                         get_pod_metrics, get_pod_power_watts,           *)
(*                         calculate_power_from_energy                     *)
(*                                                                         *)
(* Time is in whole seconds and joule counters are integers.  A power      *)
(* value (a float quotient in the source) is an exact fraction <<n, d>>    *)
(* in lowest terms with d > 0; 0.0 is <<0, 1>>.                            *)
(***************************************************************************)
EXTENDS Integers, Sequences, FiniteSets, TLC

\* ------------------------------------------------------------------ bounds
MaxTime == 3        \* datetime.now() ranges over 0..MaxTime
MaxJoules == 1      \* each zone counter of a scrape ranges over 0..MaxJoules
MaxInterval == 2    \* measurement_interval_seconds is -MaxInterval, 0 or MaxInterval
CacheTtl == 1       \* the cache_ttl the client is constructed with
MaxRecords == 2     \* a record list queried on its own has at most MaxRecords records
MaxLines == 3       \* a text decoded on its own has at most MaxLines lines

Times == 0..MaxTime
Joules == 0..MaxJoules
Intervals == {0 - MaxInterval, 0, MaxInterval}

Pods == {"a"}
Namespaces == {"default"}
CacheKeys == {"all_metrics", "other"}

\* ------------------------------------------------------- Optional[...] values
None == [some |-> FALSE]
Some(x) == [some |-> TRUE, val |-> x]

\* ------------------------------------------------------------ exact fractions
Abs(n) == IF n < 0 THEN 0 - n ELSE n

RECURSIVE GCD(_, _)
GCD(a, b) == IF b = 0 THEN a ELSE GCD(b, a % b)

\* n / d for d > 0, in lowest terms
Rat(n, d) == LET g == GCD(Abs(n), d) IN <<n \div g, d \div g>>

Zero == <<0, 1>>

RatAdd(x, y) == Rat(x[1] * y[2] + y[1] * x[2], x[2] * y[2])

RatNonNeg(x) == x[1] >= 0

\* --------------------------------------------------------- dict operations
EmptyDict == << >>

DictSet(d, k, v) == [x \in DOMAIN d \cup {k} |-> IF x = k THEN v ELSE d[x]]

DictDel(d, k) == [x \in DOMAIN d \ {k} |-> d[x]]

\* ------------------------------------------------------------------- state
VARIABLES
    now,                        \* the wall clock read by datetime.now()
    ttl_seconds,                \* KeplerMetricsCache.ttl_seconds
    cache,                      \* KeplerMetricsCache._cache
    power_measurement_cache,    \* KeplerClient._power_measurement_cache
    origin,                     \* history: per entity key, its first reading
    hist,                       \* history kept by SpecCache and SpecCacheConc: per cache key, what last happened to it
    invoked,                    \* history kept by SpecFetch: the last HTTP GETs of fetch_metrics
    getter,                     \* a KeplerMetricsCache.get call run statement by statement
    calls,                      \* get_pod_power_watts calls run statement by statement
    basis,                      \* history kept by Spec: per entity key, the snapshot its stored reading came from
    decoded,                    \* history kept by SpecDecodeMixed: the first text decoded and what it gave
    ret                         \* the call made by the last step and its result

vars == <<now, ttl_seconds, cache, power_measurement_cache, origin, hist, invoked, getter, calls, basis, decoded, ret>>

Idle == [op |-> "none"]


\* ------------------------------------------------- prometheus_parser.py
\* An exposition payload is a sequence of lines.  A line is blank, a comment
\* (it starts with '#'), text the line pattern does not match ("garbage"), or
\* a sample: a metric name, an optional {label list} given as a sequence of
\* <<key, value>> pairs, a value token and an optional integer timestamp.
\* A value token is a float literal [tok |-> "float", v |-> n], one of the
\* special tokens "NaN", "+Inf", "-Inf", or a token float() rejects ("junk").
\* A timestamp is a digit string: [digits |-> "short", v |-> n] reads n, and
\* [digits |-> "overlong"] has more digits than int() converts (it raises
\* ValueError past the interpreter's limit on integer strings).

PrometheusMetric(name, labels, value, timestamp) ==
    [name |-> name, labels |-> labels, value |-> value, timestamp |-> timestamp]

\* faulty variant: a key that is already set keeps its first value
RECURSIVE parse_labels_loop_first_wins(_, _)
parse_labels_loop_first_wins(matches, labels) ==
    IF matches = << >> THEN labels
    ELSE parse_labels_loop_first_wins(
             Tail(matches),
             IF Head(matches)[1] \in DOMAIN labels THEN labels
             ELSE DictSet(labels, Head(matches)[1], Head(matches)[2]))

RECURSIVE parse_labels_loop(_, _)
parse_labels_loop(matches, labels) ==
    IF matches = << >> THEN labels
    ELSE parse_labels_loop(Tail(matches),
                           DictSet(labels, Head(matches)[1], Head(matches)[2]))

parse_labels(labels_str) == parse_labels_loop(labels_str, EmptyDict)

parse_metric_line(line) ==
    IF line.kind # "sample" THEN None
    ELSE LET labels == IF line.labels.some /\ line.labels.val # << >>
                       THEN parse_labels(line.labels.val) ELSE EmptyDict
             timestamp == IF line.timestamp.some THEN Some(line.timestamp.val.v)
                          ELSE None
         IN  IF line.value.tok = "float"
             THEN Some(PrometheusMetric(line.name, labels, line.value.v, timestamp))
             ELSE IF line.value.tok \in {"NaN", "+Inf", "-Inf"}
             THEN Some(PrometheusMetric(line.name, labels, line.value.tok, timestamp))
             ELSE None

\* the value token is one float() or the special-value branch accepts
value_accepted(value_str) == value_str.tok \in {"float", "NaN", "+Inf", "-Inf"}

\* `int(timestamp_str)` is reached, outside the try, and raises ValueError
parse_metric_line_raises(line) ==
    /\ line.kind = "sample"
    /\ value_accepted(line.value)
    /\ line.timestamp.some
    /\ line.timestamp.val.digits = "overlong"

\* the exception leaves the loop: parse_prometheus_text raises as a whole
parse_prometheus_text_raises(text) ==
    \E i \in 1..Len(text) : parse_metric_line_raises(text[i])

\* faulty variant: a record whose line has no timestamp is stamped with the
\* time of the decode
RECURSIVE parse_prometheus_text_stamped(_)
parse_prometheus_text_stamped(text) ==
    IF text = << >> THEN << >>
    ELSE LET line == Head(text)
             rest == parse_prometheus_text_stamped(Tail(text))
         IN  IF line.kind \in {"blank", "comment"} THEN rest
             ELSE LET metric == parse_metric_line(line)
                  IN  IF ~metric.some THEN rest
                      ELSE IF metric.val.timestamp.some THEN <<metric.val>> \o rest
                      ELSE <<[metric.val EXCEPT !.timestamp = Some(now)]>> \o rest

RECURSIVE parse_prometheus_text(_)
parse_prometheus_text(text) ==
    IF text = << >> THEN << >>
    ELSE LET line == Head(text)
             rest == parse_prometheus_text(Tail(text))
         IN  IF line.kind \in {"blank", "comment"} THEN rest
             ELSE LET metric == parse_metric_line(line)
                  IN  IF metric.some THEN <<metric.val>> \o rest ELSE rest

\* `if name:` and `if labels:` are Python truth tests: None, "" and {} are false
NameGiven(name) == name.some /\ name.val # ""
LabelsGiven(labels) == labels.some /\ DOMAIN labels.val # {}

\* all(m.labels.get(k) == v for k, v in labels.items())
LabelsMatch(m, labels) ==
    \A k \in DOMAIN labels : k \in DOMAIN m.labels /\ m.labels[k] = labels[k]

filter_metrics(metrics, name, labels) ==
    LET ByName(m) == m.name = name.val
        ByLabels(m) == LabelsMatch(m, labels.val)
        filtered == IF NameGiven(name) THEN SelectSeq(metrics, ByName) ELSE metrics
    IN  IF LabelsGiven(labels) THEN SelectSeq(filtered, ByLabels) ELSE filtered

\* faulty variant: the last matching record is returned, not the first
get_metric_value_last_match(metrics, name, labels, default) ==
    LET filtered == filter_metrics(metrics, Some(name), labels)
    IN  IF filtered = << >> THEN default ELSE filtered[Len(filtered)].value

\* `if not filtered: return default`, else `filtered[0].value`
get_metric_value(metrics, name, labels, default) ==
    LET filtered == filter_metrics(metrics, Some(name), labels)
    IN  IF filtered = << >> THEN default ELSE filtered[1].value

RECURSIVE SeqSum(_)
SeqSum(values) == IF values = << >> THEN 0 ELSE Head(values) + SeqSum(Tail(values))

RECURSIVE SeqMin(_)
SeqMin(values) ==
    IF Len(values) = 1 THEN Head(values)
    ELSE LET m == SeqMin(Tail(values)) IN IF Head(values) < m THEN Head(values) ELSE m

RECURSIVE SeqMax(_)
SeqMax(values) ==
    IF Len(values) = 1 THEN Head(values)
    ELSE LET m == SeqMax(Tail(values)) IN IF Head(values) > m THEN Head(values) ELSE m

\* faulty variant: the empty-result guard is missing, so the operator is applied
\* to an empty list: sum([]) is 0, the division of avg raises
\* ZeroDivisionError, min([]) and max([]) raise ValueError
aggregate_metrics_without_empty_guard(metrics, name, labels, aggregation) ==
    LET filtered == filter_metrics(metrics, Some(name), labels)
        values == [i \in 1..Len(filtered) |-> filtered[i].value]
    IN  IF aggregation = "sum" THEN [raised |-> FALSE, value |-> SeqSum(values)]
        ELSE IF filtered = << >> THEN [raised |-> TRUE]
        ELSE IF aggregation = "avg"
        THEN [raised |-> FALSE, value |-> Rat(SeqSum(values), Len(values))]
        ELSE IF aggregation = "min" THEN [raised |-> FALSE, value |-> SeqMin(values)]
        ELSE IF aggregation = "max" THEN [raised |-> FALSE, value |-> SeqMax(values)]
        ELSE [raised |-> TRUE]

\* [raised |-> FALSE, value |-> v] is `return v`; raised is the ValueError.
\* sum, min and max of integer readings are integers; avg is a fraction.
aggregate_metrics(metrics, name, labels, aggregation) ==
    LET filtered == filter_metrics(metrics, Some(name), labels)
        values == [i \in 1..Len(filtered) |-> filtered[i].value]
    IN  IF filtered = << >> THEN [raised |-> FALSE, value |-> 0]
        ELSE IF aggregation = "sum" THEN [raised |-> FALSE, value |-> SeqSum(values)]
        ELSE IF aggregation = "avg"
        THEN [raised |-> FALSE, value |-> Rat(SeqSum(values), Len(values))]
        ELSE IF aggregation = "min" THEN [raised |-> FALSE, value |-> SeqMin(values)]
        ELSE IF aggregation = "max" THEN [raised |-> FALSE, value |-> SeqMax(values)]
        ELSE [raised |-> TRUE]

\* -------------------------------------------------- the collector's payloads
CommentLine == [kind |-> "comment"]

SampleLine(name, pairs, v) ==
    [kind |-> "sample", name |-> name, labels |-> Some(pairs),
     value |-> [tok |-> "float", v |-> v], timestamp |-> None]

PodLine(pod, ns, zone, v) ==
    SampleLine("kepler_pod_cpu_joules_total",
               <<<<"pod_name", pod>>, <<"pod_namespace", ns>>, <<"zone", zone>>>>, v)

NodeLine == [kind |-> "sample", name |-> "kepler_node_package_joules_total",
             labels |-> None, value |-> [tok |-> "float", v |-> 1],
             timestamp |-> None]

\* what Kepler serves for one pod whose package and dram counters read p and d
Exposition(pod, ns, p, d) ==
    <<CommentLine, PodLine(pod, ns, "package", p), NodeLine, PodLine(pod, ns, "dram", d)>>

\* a scrape without any pod sample, and the scrapes of each pod
Payloads ==
    {<<CommentLine, NodeLine>>} \cup
    {Exposition(pod, ns, p, d) : pod \in Pods, ns \in Namespaces, p \in Joules, d \in Joules}

Snapshots == {parse_prometheus_text(text) : text \in Payloads}

\* --------------------------------------- kepler_client.py: KeplerMetricsCache
\* faulty variant: an entry expires as soon as its age reaches ttl (>= for >)
KeplerMetricsCache_get_expires_at_ttl(c, ttl, key, t) ==
    IF key \notin DOMAIN c THEN [cache |-> c, result |-> None]
    ELSE IF t - c[key].timestamp >= ttl
    THEN [cache |-> DictDel(c, key), result |-> None]
    ELSE [cache |-> c, result |-> Some(c[key].metrics)]

\* faulty variant: an expired entry is reported as a miss but stays stored
KeplerMetricsCache_get_keeps_stale(c, ttl, key, t) ==
    IF key \notin DOMAIN c THEN [cache |-> c, result |-> None]
    ELSE IF t - c[key].timestamp > ttl
    THEN [cache |-> c, result |-> None]
    ELSE [cache |-> c, result |-> Some(c[key].metrics)]

\* an entry is the tuple (timestamp, metrics); t is datetime.now()
KeplerMetricsCache_get(c, ttl, key, t) ==
    IF key \notin DOMAIN c THEN [cache |-> c, result |-> None]
    ELSE IF t - c[key].timestamp > ttl
    THEN [cache |-> DictDel(c, key), result |-> None]
    ELSE [cache |-> c, result |-> Some(c[key].metrics)]

\* faulty variant: replacing an entry keeps the time it was first stored
KeplerMetricsCache_set_keeps_timestamp(c, key, metrics, t) ==
    DictSet(c, key, [timestamp |-> IF key \in DOMAIN c THEN c[key].timestamp ELSE t,
                     metrics |-> metrics])

KeplerMetricsCache_set(c, key, metrics, t) ==
    DictSet(c, key, [timestamp |-> t, metrics |-> metrics])

\* faulty variant: only the client's own key is dropped
KeplerMetricsCache_clear_own_key(c) == DictDel(c, "all_metrics")

KeplerMetricsCache_clear(c) == EmptyDict

\* ------------------------------------------------ kepler_client.py: KeplerClient
\* faulty variant: the decoded snapshot is returned but not stored
fetch_metrics_without_store(c, ttl, t, use_cache, response) ==
    LET looked == IF use_cache THEN KeplerMetricsCache_get(c, ttl, "all_metrics", t)
                  ELSE [cache |-> c, result |-> None]
    IN  IF looked.result.some
        THEN [cache |-> looked.cache, raised |-> FALSE, fetched |-> FALSE,
              metrics |-> looked.result.val]
        ELSE IF response.some
        THEN [cache |-> looked.cache, raised |-> FALSE, fetched |-> TRUE,
              metrics |-> parse_prometheus_text(response.val)]
        ELSE [cache |-> looked.cache, raised |-> TRUE, fetched |-> TRUE]

\* faulty variant: a failed GET is remembered as an empty snapshot
fetch_metrics_caches_failure(c, ttl, t, use_cache, response) ==
    LET looked == IF use_cache THEN KeplerMetricsCache_get(c, ttl, "all_metrics", t)
                  ELSE [cache |-> c, result |-> None]
    IN  IF looked.result.some
        THEN [cache |-> looked.cache, raised |-> FALSE, fetched |-> FALSE,
              metrics |-> looked.result.val]
        ELSE IF response.some
        THEN LET metrics == parse_prometheus_text(response.val)
             IN  [cache |-> KeplerMetricsCache_set(looked.cache, "all_metrics", metrics, t),
                  raised |-> FALSE, fetched |-> TRUE, metrics |-> metrics]
        ELSE [cache |-> KeplerMetricsCache_set(looked.cache, "all_metrics", << >>, t),
              raised |-> TRUE, fetched |-> TRUE]

\* faulty variant: the cached snapshot is tested for truth (`if cached:`), so
\* an empty one is taken for a miss
fetch_metrics_hit_by_truth(c, ttl, t, use_cache, response) ==
    LET looked == IF use_cache THEN KeplerMetricsCache_get(c, ttl, "all_metrics", t)
                  ELSE [cache |-> c, result |-> None]
    IN  IF looked.result.some /\ looked.result.val # << >>
        THEN [cache |-> looked.cache, raised |-> FALSE, fetched |-> FALSE,
              metrics |-> looked.result.val]
        ELSE IF response.some
        THEN LET metrics == parse_prometheus_text(response.val)
             IN  [cache |-> KeplerMetricsCache_set(looked.cache, "all_metrics", metrics, t),
                  raised |-> FALSE, fetched |-> TRUE, metrics |-> metrics]
        ELSE [cache |-> looked.cache, raised |-> TRUE, fetched |-> TRUE]

\* response is what the HTTP GET yields when it is made: Some(text) for a
\* 2xx answer, None when client.get or raise_for_status raises HTTPError
fetch_metrics(c, ttl, t, use_cache, response) ==
    LET looked == IF use_cache THEN KeplerMetricsCache_get(c, ttl, "all_metrics", t)
                  ELSE [cache |-> c, result |-> None]
    IN  IF looked.result.some
        THEN [cache |-> looked.cache, raised |-> FALSE, fetched |-> FALSE,
              metrics |-> looked.result.val]
        ELSE IF response.some
        THEN LET metrics == parse_prometheus_text(response.val)
             IN  [cache |-> KeplerMetricsCache_set(looked.cache, "all_metrics", metrics, t),
                  raised |-> FALSE, fetched |-> TRUE, metrics |-> metrics]
        ELSE [cache |-> looked.cache, raised |-> TRUE, fetched |-> TRUE]

\* the part of get_pod_metrics after fetch_metrics returned `metrics`
get_pod_metrics(metrics, pod_name, namespace) ==
    LET package_labels == [pod_name |-> pod_name, pod_namespace |-> namespace,
                           zone |-> "package"]
        dram_labels == [pod_name |-> pod_name, pod_namespace |-> namespace,
                        zone |-> "dram"]
        package_joules == aggregate_metrics(metrics, "kepler_pod_cpu_joules_total",
                                            Some(package_labels), "sum").value
        dram_joules == aggregate_metrics(metrics, "kepler_pod_cpu_joules_total",
                                         Some(dram_labels), "sum").value
    IN  [total_joules |-> package_joules + dram_joules,
         cpu_joules_total |-> package_joules,
         dram_joules_total |-> dram_joules,
         package_joules_total |-> package_joules]

\* faulty variant: the negative-delta guard is missing
calculate_power_without_reset_guard(energy_joules_t1, energy_joules_t2, time_seconds) ==
    IF time_seconds <= 0 THEN Zero
    ELSE Rat(energy_joules_t2 - energy_joules_t1, time_seconds)

calculate_power_from_energy(energy_joules_t1, energy_joules_t2, time_seconds) ==
    IF time_seconds <= 0 THEN Zero
    ELSE LET energy_delta == energy_joules_t2 - energy_joules_t1
         IN  IF energy_delta < 0 THEN Zero
             ELSE Rat(energy_delta, time_seconds)

\* cache_key = f"pod:{namespace}/{pod_name}"
PodKey(pod_name, namespace) == <<"pod", namespace, pod_name>>

\* the tuple (current_time, {"total_joules": .., "cpu_joules": .., "dram_joules": ..})
Measurement(current_time, current_metrics) ==
    [time |-> current_time,
     metrics |-> [total_joules |-> current_metrics.total_joules,
                  cpu_joules |-> current_metrics.cpu_joules_total,
                  dram_joules |-> current_metrics.dram_joules_total]]

ZeroPower(status) ==
    [cpu_watts |-> Zero, dram_watts |-> Zero, total_watts |-> Zero,
     measurement_status |-> status]

\* faulty variant: the first measurement of a key replaces the whole dict
power_first_measurement_resets_tracker(pmc, cache_key, current_time, current_metrics) ==
    [pmc |-> DictSet(EmptyDict, cache_key, Measurement(current_time, current_metrics)),
     result |-> ZeroPower("initializing")]

\* faulty variant: the first measurement is returned but not stored
power_first_measurement_not_stored(pmc, cache_key, current_time, current_metrics) ==
    [pmc |-> pmc, result |-> ZeroPower("initializing")]

\* first measurement: store and return 0
power_first_measurement(pmc, cache_key, current_time, current_metrics) ==
    [pmc |-> DictSet(pmc, cache_key, Measurement(current_time, current_metrics)),
     result |-> ZeroPower("initializing")]

\* faulty variant: the interval check is missing
too_soon_never(time_delta_seconds, measurement_interval_seconds) == FALSE

\* faulty variant: <= for <, a sample exactly one interval old is rejected
too_soon_inclusive(time_delta_seconds, measurement_interval_seconds) ==
    time_delta_seconds <= measurement_interval_seconds

\* `if time_delta_seconds < measurement_interval_seconds:`
too_soon(time_delta_seconds, measurement_interval_seconds) ==
    time_delta_seconds < measurement_interval_seconds

\* faulty variant: the rejected sample becomes the stored measurement
power_measurement_too_soon_overwrites(pmc, cache_key, current_time, current_metrics) ==
    [pmc |-> DictSet(pmc, cache_key, Measurement(current_time, current_metrics)),
     result |-> ZeroPower("waiting_for_interval")]

\* faulty variant: the rejected sample restarts the stored measurement's clock
power_measurement_too_soon_restamps(pmc, cache_key, current_time, current_metrics) ==
    [pmc |-> DictSet(pmc, cache_key, [pmc[cache_key] EXCEPT !.time = current_time]),
     result |-> ZeroPower("waiting_for_interval")]

\* not enough time has elapsed: return 0, the stored measurement stays
power_measurement_too_soon(pmc, cache_key, current_time, current_metrics) ==
    [pmc |-> pmc, result |-> ZeroPower("waiting_for_interval")]

\* faulty variant: a reading below the stored one is dropped, not stored
power_calculated_keeps_baseline_on_reset(pmc, cache_key, current_time, current_metrics) ==
    LET prev_time == pmc[cache_key].time
        prev_metrics == pmc[cache_key].metrics
        time_delta_seconds == current_time - prev_time
    IN  [pmc |-> IF current_metrics.total_joules < prev_metrics.total_joules
                 THEN pmc
                 ELSE DictSet(pmc, cache_key,
                              Measurement(current_time, current_metrics)),
         result |->
            [cpu_watts |-> calculate_power_from_energy(
                               prev_metrics.cpu_joules,
                               current_metrics.cpu_joules_total, time_delta_seconds),
             dram_watts |-> calculate_power_from_energy(
                               prev_metrics.dram_joules,
                               current_metrics.dram_joules_total, time_delta_seconds),
             total_watts |-> calculate_power_from_energy(
                               prev_metrics.total_joules,
                               current_metrics.total_joules, time_delta_seconds),
             measurement_status |-> "active"]]

\* faulty variant: a stored reading of 0 joules is taken for a missing baseline
power_calculated_ignores_zero_baseline(pmc, cache_key, current_time, current_metrics) ==
    LET prev_time == pmc[cache_key].time
        prev_metrics == pmc[cache_key].metrics
        time_delta_seconds == current_time - prev_time
    IN  [pmc |-> DictSet(pmc, cache_key, Measurement(current_time, current_metrics)),
         result |->
            IF prev_metrics.total_joules = 0
            THEN ZeroPower("active")
            ELSE
            [cpu_watts |-> calculate_power_from_energy(
                               prev_metrics.cpu_joules,
                               current_metrics.cpu_joules_total, time_delta_seconds),
             dram_watts |-> calculate_power_from_energy(
                               prev_metrics.dram_joules,
                               current_metrics.dram_joules_total, time_delta_seconds),
             total_watts |-> calculate_power_from_energy(
                               prev_metrics.total_joules,
                               current_metrics.total_joules, time_delta_seconds),
             measurement_status |-> "active"]]

\* faulty variant: a reading equal to the stored one is not stored again
power_calculated_skips_unchanged(pmc, cache_key, current_time, current_metrics) ==
    LET prev_time == pmc[cache_key].time
        prev_metrics == pmc[cache_key].metrics
        time_delta_seconds == current_time - prev_time
    IN  [pmc |-> IF Measurement(current_time, current_metrics).metrics = prev_metrics
                 THEN pmc
                 ELSE DictSet(pmc, cache_key,
                              Measurement(current_time, current_metrics)),
         result |->
            [cpu_watts |-> calculate_power_from_energy(
                               prev_metrics.cpu_joules,
                               current_metrics.cpu_joules_total, time_delta_seconds),
             dram_watts |-> calculate_power_from_energy(
                               prev_metrics.dram_joules,
                               current_metrics.dram_joules_total, time_delta_seconds),
             total_watts |-> calculate_power_from_energy(
                               prev_metrics.total_joules,
                               current_metrics.total_joules, time_delta_seconds),
             measurement_status |-> "active"]]

\* faulty variant: the new readings are stored under the old measurement's time
power_calculated_keeps_timestamp(pmc, cache_key, current_time, current_metrics) ==
    LET prev_time == pmc[cache_key].time
        prev_metrics == pmc[cache_key].metrics
        time_delta_seconds == current_time - prev_time
    IN  [pmc |-> DictSet(pmc, cache_key,
                         [Measurement(current_time, current_metrics)
                             EXCEPT !.time = prev_time]),
         result |->
            [cpu_watts |-> calculate_power_from_energy(
                               prev_metrics.cpu_joules,
                               current_metrics.cpu_joules_total, time_delta_seconds),
             dram_watts |-> calculate_power_from_energy(
                               prev_metrics.dram_joules,
                               current_metrics.dram_joules_total, time_delta_seconds),
             total_watts |-> calculate_power_from_energy(
                               prev_metrics.total_joules,
                               current_metrics.total_joules, time_delta_seconds),
             measurement_status |-> "active"]]

\* power from the energy delta; the stored measurement becomes the current one
power_calculated_for_pod(pmc, cache_key, current_time, current_metrics) ==
    LET prev_time == pmc[cache_key].time
        prev_metrics == pmc[cache_key].metrics
        time_delta_seconds == current_time - prev_time
    IN  [pmc |-> DictSet(pmc, cache_key, Measurement(current_time, current_metrics)),
         result |->
            [cpu_watts |-> calculate_power_from_energy(
                               prev_metrics.cpu_joules,
                               current_metrics.cpu_joules_total, time_delta_seconds),
             dram_watts |-> calculate_power_from_energy(
                               prev_metrics.dram_joules,
                               current_metrics.dram_joules_total, time_delta_seconds),
             total_watts |-> calculate_power_from_energy(
                               prev_metrics.total_joules,
                               current_metrics.total_joules, time_delta_seconds),
             measurement_status |-> "active"]]

\* get_pod_power_watts once get_pod_metrics returned current_metrics
derive_power(pmc, cache_key, current_time, current_metrics, measurement_interval_seconds) ==
    IF cache_key \notin DOMAIN pmc
    THEN power_first_measurement(pmc, cache_key, current_time, current_metrics)
    ELSE IF too_soon(current_time - pmc[cache_key].time, measurement_interval_seconds)
    THEN power_measurement_too_soon(pmc, cache_key, current_time, current_metrics)
    ELSE power_calculated_for_pod(pmc, cache_key, current_time, current_metrics)

get_pod_power_watts(c, pmc, ttl, current_time, pod_name, namespace, measurement_interval_seconds, response) ==
    LET cache_key == PodKey(pod_name, namespace)
        fetched == fetch_metrics(c, ttl, current_time, TRUE, response)
    IN  IF fetched.raised
        THEN [cache |-> fetched.cache, pmc |-> pmc, raised |-> TRUE,
              fetched |-> fetched.fetched]
        ELSE LET current_metrics == get_pod_metrics(fetched.metrics, pod_name, namespace)
                 derived == derive_power(pmc, cache_key, current_time, current_metrics,
                                         measurement_interval_seconds)
             IN  [cache |-> fetched.cache, pmc |-> derived.pmc, raised |-> FALSE,
                  fetched |-> fetched.fetched,
                  current_metrics |-> current_metrics, result |-> derived.result]

\* ----------------------------------------------------------------- actions
\* no HTTP GET has been made yet
NoInvocation == [last |-> None, last_cached |-> None]

\* the statement-by-statement get call is not running
GetterIdle == [pc |-> "idle"]

\* two get_pod_power_watts calls that may run concurrently, each made once
Callers == {"c1", "c2"}

CallIdle == [pc |-> "idle"]

Init ==
    /\ now = 0
    /\ ttl_seconds = CacheTtl
    /\ cache = EmptyDict
    /\ power_measurement_cache = EmptyDict
    /\ origin = EmptyDict
    /\ hist = EmptyDict
    /\ invoked = NoInvocation
    /\ getter = GetterIdle
    /\ calls = [c \in Callers |-> CallIdle]
    /\ basis = EmptyDict
    /\ decoded = None
    /\ ret = Idle

\* the wall clock moves forward ...
Tick ==
    /\ \E t \in Times : t > now /\ now' = t
    /\ ret' = Idle
    /\ UNCHANGED <<ttl_seconds, cache, power_measurement_cache, origin, hist, invoked, getter, calls, basis, decoded>>

\* ... or is set back (datetime.now() is not monotonic)
ClockBack ==
    /\ \E t \in Times : t < now /\ now' = t
    /\ ret' = Idle
    /\ UNCHANGED <<ttl_seconds, cache, power_measurement_cache, origin, hist, invoked, getter, calls, basis, decoded>>

\* History of an entity key, kept from the calls' inputs alone: the reading of
\* its first Observe stays open until an Observe arrives whose elapsed time
\* since that reading reaches the interval it was called with; `rejected`
\* tells that some Observe in between came earlier than its interval.
OriginAfter(o, cache_key, current_time, current_metrics, interval) ==
    IF cache_key \notin DOMAIN o
    THEN DictSet(o, cache_key, [open |-> TRUE, rejected |-> FALSE,
                                at |-> Measurement(current_time, current_metrics)])
    ELSE IF ~o[cache_key].open THEN o
    ELSE IF current_time - o[cache_key].at.time < interval
    THEN DictSet(o, cache_key, [o[cache_key] EXCEPT !.rejected = TRUE])
    ELSE DictSet(o, cache_key, [open |-> FALSE])

Lookup(d, k) == IF k \in DOMAIN d THEN Some(d[k]) ELSE None

\* History of the stored readings: the cache entry (snapshot and the time it
\* was fetched) that served the call which stored the reading of the key.  A
\* call that returns has been served by the entry the cache holds afterwards.
BasisAfter(b, cache_key, r) ==
    IF r.result.measurement_status = "waiting_for_interval" THEN b
    ELSE DictSet(b, cache_key, r.cache["all_metrics"])

\* one call of KeplerClient.get_pod_power_watts
Observe(pod_name, namespace, interval, response) ==
    \E r \in {get_pod_power_watts(cache, power_measurement_cache, ttl_seconds, now,
                                 pod_name, namespace, interval, response)} :
    LET cache_key == PodKey(pod_name, namespace)
        call == [op |-> "observe", key |-> cache_key, interval |-> interval,
                 at |-> now, prev |-> Lookup(power_measurement_cache, cache_key),
                 first |-> Lookup(origin, cache_key), raised |-> r.raised,
                 tracker |-> power_measurement_cache,
                 entry |-> Lookup(cache, "all_metrics")]
    IN  /\ cache' = r.cache
        /\ power_measurement_cache' = r.pmc
        /\ IF r.raised
           THEN /\ ret' = call
                /\ origin' = origin
                /\ basis' = basis
           ELSE /\ ret' = [op |-> "observe", key |-> cache_key, interval |-> interval,
                           at |-> now,
                           prev |-> Lookup(power_measurement_cache, cache_key),
                           first |-> Lookup(origin, cache_key), raised |-> FALSE,
                           tracker |-> power_measurement_cache,
                           fetched |-> r.fetched, basis |-> Lookup(basis, cache_key),
                           current |-> r.current_metrics, result |-> r.result]
                /\ origin' = OriginAfter(origin, cache_key, now, r.current_metrics,
                                         interval)
                /\ basis' = BasisAfter(basis, cache_key, r)
        /\ UNCHANGED <<now, ttl_seconds, hist, invoked, getter, calls, decoded>>

Responses == {None} \cup {Some(text) : text \in Payloads}

\* the HTTP GET is made, and its response consumed, only on a cache miss
CacheHit == KeplerMetricsCache_get(cache, ttl_seconds, "all_metrics", now).result.some

ObserveAny ==
    \E pod_name \in Pods, namespace \in Namespaces, interval \in Intervals,
       response \in IF CacheHit THEN {None} ELSE Responses :
        Observe(pod_name, namespace, interval, response)

Next == Tick \/ ClockBack \/ ObserveAny

Spec == Init /\ [][Next]_vars

\* ----------------------------------- the cache class used on its own
\* History of a cache key, kept from the calls and their return values:
\* `event` is what last happened to the key (a set, a get that returned None,
\* a clear) and `at` the time of the most recent set of the key; the snapshot
\* of that set is remembered for as long as the set is the last event.
LastPutAt(h, key) == IF key \in DOMAIN h THEN h[key].at ELSE None

HistAfterSet(h, key, metrics, t) ==
    DictSet(h, key, [event |-> "put", at |-> Some(t), metrics |-> metrics])

\* `evicted`: one of the misses since the last set or clear removed an entry
HistAfterGet(h, c, key, result) ==
    IF result.some THEN h
    ELSE DictSet(h, key,
                 [event |-> "miss", at |-> LastPutAt(h, key),
                  evicted |-> \/ key \in DOMAIN c
                              \/ /\ key \in DOMAIN h
                                 /\ h[key].event = "miss"
                                 /\ h[key].evicted])

HistAfterClear(h) ==
    [key \in CacheKeys |-> [event |-> "clear", at |-> LastPutAt(h, key)]]

CacheGet(key) ==
    LET g == KeplerMetricsCache_get(cache, ttl_seconds, key, now)
    IN  /\ cache' = g.cache
        /\ hist' = HistAfterGet(hist, cache, key, g.result)
        /\ ret' = [op |-> "get", key |-> key, at |-> now,
                   entry |-> Lookup(cache, key), before |-> Lookup(hist, key),
                   result |-> g.result]
        /\ UNCHANGED <<now, ttl_seconds, power_measurement_cache, origin, invoked, getter, calls, basis, decoded>>

CacheSet(key, metrics) ==
    /\ cache' = KeplerMetricsCache_set(cache, key, metrics, now)
    /\ hist' = HistAfterSet(hist, key, metrics, now)
    /\ ret' = [op |-> "set", key |-> key, at |-> now, metrics |-> metrics,
               entry |-> Lookup(cache, key)]
    /\ UNCHANGED <<now, ttl_seconds, power_measurement_cache, origin, invoked, getter, calls, basis, decoded>>

CacheClear ==
    /\ cache' = KeplerMetricsCache_clear(cache)
    /\ hist' = HistAfterClear(hist)
    /\ ret' = [op |-> "clear", at |-> now, entries |-> cache]
    /\ UNCHANGED <<now, ttl_seconds, power_measurement_cache, origin, invoked, getter, calls, basis, decoded>>

CacheGetAny == \E key \in CacheKeys : CacheGet(key)

\* the snapshots stored here: a scrape without pod samples and the scrapes
\* whose counters both read 0 or both read MaxJoules
CacheSnapshots ==
    {parse_prometheus_text(text) :
        text \in {<<CommentLine, NodeLine>>} \cup
                 {Exposition(pod, ns, j, j) :
                     pod \in Pods, ns \in Namespaces, j \in {0, MaxJoules}}}

CacheSetAny == \E key \in CacheKeys, metrics \in CacheSnapshots : CacheSet(key, metrics)

NextCache == Tick \/ ClockBack \/ CacheGetAny \/ CacheSetAny \/ CacheClear

SpecCache == Init /\ [][NextCache]_vars

\* ------------------------------------------- fetch_metrics called on its own
\* History of the HTTP GETs: `last` is the most recent one, with whether it
\* answered, `last_cached` the time of the most recent one that was made by a
\* call with use_cache=True.
InvokedAfter(i, t, use_cache, r) ==
    IF ~r.fetched THEN i
    ELSE [last |-> Some([at |-> t, ok |-> ~r.raised]),
          last_cached |-> IF use_cache THEN Some(t) ELSE i.last_cached]

\* one call of KeplerClient.fetch_metrics
Fetch(use_cache, response) ==
    \E r \in {fetch_metrics(cache, ttl_seconds, now, use_cache, response)} :
        /\ cache' = r.cache
        /\ invoked' = InvokedAfter(invoked, now, use_cache, r)
        /\ ret' = [op |-> "fetch", use_cache |-> use_cache, at |-> now,
                   entry |-> Lookup(cache, "all_metrics"), before |-> invoked,
                   fetched |-> r.fetched, raised |-> r.raised,
                   metrics |-> IF r.raised THEN None ELSE Some(r.metrics)]
        /\ UNCHANGED <<now, ttl_seconds, power_measurement_cache, origin, hist, getter, calls, basis, decoded>>

\* a scrape of comment lines only: it decodes to no record
EmptyScrape == <<CommentLine>>

FetchResponses == Responses \cup {Some(EmptyScrape)}

FetchAny ==
    \E use_cache \in BOOLEAN :
        \E response \in IF use_cache /\ CacheHit THEN {None} ELSE FetchResponses :
            Fetch(use_cache, response)

NextFetch == Tick \/ ClockBack \/ FetchAny

SpecFetch == Init /\ [][NextFetch]_vars

\* --------------------------------------- parse_prometheus_text on its own
BlankLine == [kind |-> "blank"]

GarbageLine == [kind |-> "garbage"]

\* a sample line without labels
PlainLine(value, timestamp) ==
    [kind |-> "sample", name |-> "kepler_node_package_joules_total",
     labels |-> None, value |-> value, timestamp |-> timestamp]

\* blank, comment and unmatched lines; samples with a repeated label key, a
\* rejected value, NaN with a timestamp, and an overlong timestamp
DecodeLines ==
    {BlankLine, CommentLine, GarbageLine, NodeLine,
     SampleLine("kepler_pod_cpu_joules_total",
                <<<<"zone", "package">>, <<"pod_name", "a">>, <<"zone", "dram">>>>, 1),
     PlainLine([tok |-> "junk"], None),
     PlainLine([tok |-> "NaN"], Some([digits |-> "short", v |-> 17])),
     PlainLine([tok |-> "float", v |-> 2], Some([digits |-> "overlong"]))}

DecodeTexts == UNION {[1..n -> DecodeLines] : n \in 0..MaxLines}

\* what a parse_prometheus_text call gives: the records, or the ValueError
DecodeOutcome(text) ==
    IF parse_prometheus_text_raises(text) THEN [raised |-> TRUE]
    ELSE [raised |-> FALSE, result |-> parse_prometheus_text(text)]

\* the function reads nothing but its argument: a call is made when no result
\* is pending, and DecodeReturn hands the result to the caller
Decode(text) ==
    /\ ret' = [op |-> "decode", text |-> text, outcome |-> DecodeOutcome(text)]
    /\ UNCHANGED <<now, ttl_seconds, cache, power_measurement_cache, origin, hist, invoked, getter, calls, basis, decoded>>

DecodeAny ==
    /\ ret = Idle
    /\ \E text \in DecodeTexts : Decode(text)

DecodeReturn ==
    /\ ret # Idle
    /\ ret' = Idle
    /\ UNCHANGED <<now, ttl_seconds, cache, power_measurement_cache, origin, hist, invoked, getter, calls, basis, decoded>>

NextDecode == DecodeAny \/ DecodeReturn

SpecDecode == Init /\ [][NextDecode]_vars

\* ------------- parse_prometheus_text among Observe calls and cache operations
\* a scrape as the collector serves it, a text with lines that are skipped,
\* and a text that makes the decode raise
MixedTexts ==
    {Exposition("a", "default", MaxJoules, MaxJoules),
     <<GarbageLine, PlainLine([tok |-> "NaN"], Some([digits |-> "short", v |-> 17])),
       PlainLine([tok |-> "junk"], None)>>,
     <<NodeLine, PlainLine([tok |-> "float", v |-> 2], Some([digits |-> "overlong"]))>>}

\* History of the decodes: the first text decoded, and what it gave, if that
\* decode came before any Observe stored a reading and before any clear.
DecodedAfter(d, text, outcome) ==
    IF d.some \/ power_measurement_cache # EmptyDict \/ hist # EmptyDict THEN d
    ELSE Some([text |-> text, outcome |-> outcome])

\* one call of parse_prometheus_text, made at any moment
DecodeAgain(text) ==
    \E outcome \in {DecodeOutcome(text)} :
        /\ decoded' = DecodedAfter(decoded, text, outcome)
        /\ ret' = [op |-> "decode_again", text |-> text, outcome |-> outcome,
                   first |-> decoded]
        /\ UNCHANGED <<now, ttl_seconds, cache, power_measurement_cache, origin, hist, invoked, getter, calls, basis>>

DecodeAgainAny == \E text \in MixedTexts : DecodeAgain(text)

\* get_pod_power_watts as mcp_server.py calls it, with the default interval
ObserveDefault ==
    \E pod_name \in Pods, namespace \in Namespaces,
       response \in IF CacheHit THEN {None} ELSE Responses :
        Observe(pod_name, namespace, MaxInterval, response)

NextDecodeMixed == Tick \/ ObserveDefault \/ CacheClear \/ DecodeAgainAny

SpecDecodeMixed == Init /\ [][NextDecodeMixed]_vars

\* ------------------------- filter_metrics and aggregate_metrics on their own
\* the records of five sample lines: two metric names, with no label, one
\* label or two labels
QueryLines ==
    {SampleLine("kepler_pod_cpu_joules_total", << >>, 1),
     SampleLine("kepler_pod_cpu_joules_total", <<<<"zone", "package">>>>, 2),
     SampleLine("kepler_pod_cpu_joules_total",
                <<<<"zone", "package">>, <<"pod_name", "a">>>>, 3),
     SampleLine("kepler_pod_cpu_joules_total", <<<<"zone", "dram">>>>, 4),
     SampleLine("kepler_node_package_joules_total", <<<<"zone", "package">>>>, 5)}

QueryRecords == {parse_metric_line(line).val : line \in QueryLines}

RecordLists == UNION {[1..n -> QueryRecords] : n \in 0..MaxRecords}

\* the name argument: None (not passed), the empty string, the two names of
\* the records and a name no record has
QueryNames == {"", "kepler_pod_cpu_joules_total", "kepler_node_package_joules_total",
               "kepler_absent"}

\* the labels argument: None (not passed), {}, and dicts of one or two pairs
QueryLabels ==
    {None, Some(EmptyDict),
     Some(parse_labels(<<<<"zone", "package">>>>)),
     Some(parse_labels(<<<<"zone", "pack">>>>)),
     Some(parse_labels(<<<<"zone", "package">>, <<"pod_name", "a">>>>))}

Aggregations == {"sum", "avg", "min", "max"}

\* The two functions read nothing but their arguments: a call is made when no
\* result is pending, and QueryReturn hands the result to the caller.
Filter(metrics, name, labels) ==
    /\ ret' = [op |-> "filter", metrics |-> metrics, name |-> name, labels |-> labels,
               result |-> filter_metrics(metrics, name, labels)]
    /\ UNCHANGED <<now, ttl_seconds, cache, power_measurement_cache, origin, hist, invoked, getter, calls, basis, decoded>>

Aggregate(metrics, name, labels, aggregation) ==
    /\ ret' = [op |-> "aggregate", metrics |-> metrics, name |-> name,
               labels |-> labels, aggregation |-> aggregation,
               result |-> aggregate_metrics(metrics, name, labels, aggregation)]
    /\ UNCHANGED <<now, ttl_seconds, cache, power_measurement_cache, origin, hist, invoked, getter, calls, basis, decoded>>

\* the default argument: a value no record has, and one a record has
QueryDefaults == {0, 4}

GetValue(metrics, name, labels, default) ==
    /\ ret' = [op |-> "value", metrics |-> metrics, name |-> name, labels |-> labels,
               default |-> default,
               result |-> get_metric_value(metrics, name, labels, default)]
    /\ UNCHANGED <<now, ttl_seconds, cache, power_measurement_cache, origin, hist, invoked, getter, calls, basis, decoded>>

GetValueAny ==
    /\ ret = Idle
    /\ \E metrics \in RecordLists, name \in QueryNames, labels \in QueryLabels,
          default \in QueryDefaults :
           GetValue(metrics, name, labels, default)

FilterAny ==
    /\ ret = Idle
    /\ \E metrics \in RecordLists, name \in {None} \cup {Some(n) : n \in QueryNames},
          labels \in QueryLabels :
           Filter(metrics, name, labels)

AggregateAny ==
    /\ ret = Idle
    /\ \E metrics \in RecordLists, name \in QueryNames, labels \in QueryLabels,
          aggregation \in Aggregations \cup {"median"} :
           Aggregate(metrics, name, labels, aggregation)

QueryReturn ==
    /\ ret # Idle
    /\ ret' = Idle
    /\ UNCHANGED <<now, ttl_seconds, cache, power_measurement_cache, origin, hist, invoked, getter, calls, basis, decoded>>

NextQuery == FilterAny \/ AggregateAny \/ GetValueAny \/ QueryReturn

SpecQuery == Init /\ [][NextQuery]_vars

\* ------------------- KeplerMetricsCache.get interleaved with set and clear
\* The class holds no lock.  CacheSet and CacheClear are one dict operation
\* each; a get is four statements, and other calls may run between them.
\* The clock only moves forward here.
OtherThanCache == <<now, ttl_seconds, power_measurement_cache, origin, invoked, calls, basis, decoded>>

GetReturn(key, result) ==
    /\ getter' = GetterIdle
    /\ hist' = HistAfterGet(hist, cache', key, result)
    /\ ret' = [op |-> "get_return", key |-> key, at |-> now, raised |-> FALSE,
               result |-> result]

GetRaise(key) ==
    /\ getter' = GetterIdle
    /\ ret' = [op |-> "get_return", key |-> key, at |-> now, raised |-> TRUE]
    /\ UNCHANGED <<cache, hist>>

\* `if key not in self._cache: return None`
GetBegin(key) ==
    /\ getter.pc = "idle"
    /\ IF key \notin DOMAIN cache
       THEN cache' = cache /\ GetReturn(key, None)
       ELSE /\ getter' = [pc |-> "found", key |-> key]
            /\ UNCHANGED <<cache, hist, ret>>
    /\ UNCHANGED OtherThanCache

\* `timestamp, metrics = self._cache[key]`; KeyError when the key is gone
GetRead ==
    /\ getter.pc = "found"
    /\ IF getter.key \notin DOMAIN cache
       THEN GetRaise(getter.key)
       ELSE /\ getter' = [pc |-> "read", key |-> getter.key,
                          timestamp |-> cache[getter.key].timestamp,
                          metrics |-> cache[getter.key].metrics]
            /\ UNCHANGED <<cache, hist, ret>>
    /\ UNCHANGED OtherThanCache

\* `if datetime.now() - timestamp > timedelta(seconds=self.ttl_seconds):`,
\* else `return metrics`
GetCompare ==
    /\ getter.pc = "read"
    /\ IF now - getter.timestamp > ttl_seconds
       THEN /\ getter' = [pc |-> "expired", key |-> getter.key]
            /\ UNCHANGED <<cache, hist, ret>>
       ELSE cache' = cache /\ GetReturn(getter.key, Some(getter.metrics))
    /\ UNCHANGED OtherThanCache

\* `del self._cache[key]`; KeyError when the key is gone
GetEvict ==
    /\ getter.pc = "expired"
    /\ IF getter.key \notin DOMAIN cache
       THEN GetRaise(getter.key)
       ELSE /\ cache' = DictDel(cache, getter.key)
            /\ getter' = [pc |-> "evicted", key |-> getter.key]
            /\ UNCHANGED <<hist, ret>>
    /\ UNCHANGED OtherThanCache

\* `return None` after the del
GetMiss ==
    /\ getter.pc = "evicted"
    /\ cache' = cache
    /\ GetReturn(getter.key, None)
    /\ UNCHANGED OtherThanCache

GetBeginAny == \E key \in CacheKeys : GetBegin(key)

NextCacheConc ==
    \/ Tick \/ CacheSetAny \/ CacheClear
    \/ GetBeginAny \/ GetRead \/ GetCompare \/ GetEvict \/ GetMiss

SpecCacheConc == Init /\ [][NextCacheConc]_vars

\* ----------------------- get_pod_power_watts calls interleaved with each other
\* KeplerClient holds no lock either.  Each caller of Callers makes one call;
\* the call samples the clock, fetches and sums the counters, tests whether
\* the key has a measurement, and on that branch reads it and writes the new
\* one; other callers' statements may run in between.  The clock only moves
\* forward here.
OtherThanCalls == <<now, ttl_seconds, origin, hist, invoked, getter, basis, decoded>>

CallDone(c, wrote, raised) ==
    IF raised
    THEN [pc |-> "done", key |-> calls[c].key, current_time |-> calls[c].current_time,
          wrote |-> FALSE, raised |-> TRUE]
    ELSE [pc |-> "done", key |-> calls[c].key, current_time |-> calls[c].current_time,
          current_metrics |-> calls[c].current_metrics, wrote |-> wrote,
          raised |-> FALSE,
          status |-> IF calls[c].pc = "first" THEN "initializing"
                     ELSE IF calls[c].pc = "known" THEN "waiting_for_interval"
                     ELSE "active"]

CallReturn(c, result) == [op |-> "call_return", caller |-> c, raised |-> FALSE,
                          result |-> result]

\* `cache_key = ...`, `current_time = datetime.now()`
CallBegin(c, pod_name, namespace, interval) ==
    /\ calls[c].pc = "idle"
    /\ calls' = [calls EXCEPT ![c] =
                    [pc |-> "sampled", key |-> PodKey(pod_name, namespace),
                     pod_name |-> pod_name, namespace |-> namespace,
                     interval |-> interval, current_time |-> now]]
    /\ UNCHANGED <<cache, power_measurement_cache, ret>>
    /\ UNCHANGED OtherThanCalls

\* `current_metrics = self.get_pod_metrics(pod_name, namespace)`
CallFetch(c, response) ==
    /\ calls[c].pc = "sampled"
    /\ \E r \in {fetch_metrics(cache, ttl_seconds, now, TRUE, response)} :
        /\ cache' = r.cache
        /\ IF r.raised
           THEN /\ calls' = [calls EXCEPT ![c] = CallDone(c, FALSE, TRUE)]
                /\ ret' = [op |-> "call_return", caller |-> c, raised |-> TRUE]
           ELSE /\ calls' = [calls EXCEPT ![c] =
                                [pc |-> "fetched", key |-> calls[c].key,
                                 interval |-> calls[c].interval,
                                 current_time |-> calls[c].current_time,
                                 current_metrics |->
                                     get_pod_metrics(r.metrics, calls[c].pod_name,
                                                     calls[c].namespace)]]
                /\ ret' = ret
    /\ UNCHANGED power_measurement_cache
    /\ UNCHANGED OtherThanCalls

\* `if cache_key not in self._power_measurement_cache:`
CallCheck(c) ==
    /\ calls[c].pc = "fetched"
    /\ calls' = [calls EXCEPT ![c].pc =
                    IF calls[c].key \in DOMAIN power_measurement_cache
                    THEN "known" ELSE "first"]
    /\ UNCHANGED <<cache, power_measurement_cache, ret>>
    /\ UNCHANGED OtherThanCalls

\* the first-measurement branch: the write, and the return
CallStoreFirst(c) ==
    /\ calls[c].pc = "first"
    /\ \E d \in {power_first_measurement(power_measurement_cache, calls[c].key,
                                        calls[c].current_time,
                                        calls[c].current_metrics)} :
        /\ power_measurement_cache' = d.pmc
        /\ ret' = CallReturn(c, d.result)
    /\ calls' = [calls EXCEPT ![c] = CallDone(c, TRUE, FALSE)]
    /\ UNCHANGED cache
    /\ UNCHANGED OtherThanCalls

\* `prev_time, prev_metrics = self._power_measurement_cache[cache_key]` and
\* the interval test; the powers are computed from what was read here
CallRead(c) ==
    /\ calls[c].pc = "known"
    /\ IF too_soon(calls[c].current_time - power_measurement_cache[calls[c].key].time,
                   calls[c].interval)
       THEN \E d \in {power_measurement_too_soon(power_measurement_cache,
                                                 calls[c].key, calls[c].current_time,
                                                 calls[c].current_metrics)} :
               /\ power_measurement_cache' = d.pmc
               /\ ret' = CallReturn(c, d.result)
               /\ calls' = [calls EXCEPT ![c] = CallDone(c, FALSE, FALSE)]
       ELSE /\ calls' = [calls EXCEPT ![c] =
                            [pc |-> "calculated", key |-> calls[c].key,
                             current_time |-> calls[c].current_time,
                             current_metrics |-> calls[c].current_metrics,
                             prev |-> power_measurement_cache[calls[c].key]]]
            /\ UNCHANGED <<power_measurement_cache, ret>>
    /\ UNCHANGED cache
    /\ UNCHANGED OtherThanCalls

\* `self._power_measurement_cache[cache_key] = (current_time, {...})` and the
\* return of the powers computed from the measurement read by CallRead
CallStore(c) ==
    /\ calls[c].pc = "calculated"
    /\ power_measurement_cache' =
           power_calculated_for_pod(power_measurement_cache, calls[c].key,
                                    calls[c].current_time,
                                    calls[c].current_metrics).pmc
    /\ ret' = CallReturn(c, power_calculated_for_pod(
                                DictSet(power_measurement_cache, calls[c].key,
                                        calls[c].prev),
                                calls[c].key, calls[c].current_time,
                                calls[c].current_metrics).result)
    /\ calls' = [calls EXCEPT ![c] = CallDone(c, TRUE, FALSE)]
    /\ UNCHANGED cache
    /\ UNCHANGED OtherThanCalls

CallBeginAny ==
    \E c \in Callers, pod_name \in Pods, namespace \in Namespaces,
       interval \in Intervals :
        CallBegin(c, pod_name, namespace, interval)

CallFetchAny ==
    \E c \in Callers :
        \E response \in IF CacheHit THEN {None} ELSE Responses : CallFetch(c, response)

CallCheckAny == \E c \in Callers : CallCheck(c)

CallStoreFirstAny == \E c \in Callers : CallStoreFirst(c)

CallReadAny == \E c \in Callers : CallRead(c)

CallStoreAny == \E c \in Callers : CallStore(c)

NextConc ==
    \/ Tick \/ CallBeginAny \/ CallFetchAny \/ CallCheckAny
    \/ CallStoreFirstAny \/ CallReadAny \/ CallStoreAny

SpecConc == Init /\ [][NextConc]_vars

\* ------------------------------ get_pod_power_watts for more than one entity
TrackedPods == {"a", "b"}

\* what Kepler serves for two pods whose package counters both read j
PodsExposition(j) ==
    <<PodLine("a", "default", "package", j), PodLine("b", "default", "package", j)>>

PodsResponses == {None} \cup {Some(PodsExposition(j)) : j \in Joules}

\* one call of KeplerClient.get_pod_power_watts; the step records the stored
\* readings and the cache entry it found, the histories are not kept here
ObserveTracked(pod_name, interval, response) ==
    \E r \in {get_pod_power_watts(cache, power_measurement_cache, ttl_seconds, now,
                                  pod_name, "default", interval, response)} :
        /\ cache' = r.cache
        /\ power_measurement_cache' = r.pmc
        /\ ret' = [op |-> "observe", key |-> PodKey(pod_name, "default"),
                   answered |-> response.some, raised |-> r.raised,
                   tracker |-> power_measurement_cache,
                   entry |-> Lookup(cache, "all_metrics"),
                   status |-> IF r.raised THEN None
                              ELSE Some(r.result.measurement_status)]
        /\ UNCHANGED <<now, ttl_seconds, origin, hist, invoked, getter, calls, basis, decoded>>

ObservePods ==
    \E pod_name \in TrackedPods, interval \in Intervals,
       response \in IF CacheHit THEN {None} ELSE PodsResponses :
        ObserveTracked(pod_name, interval, response)

\* one call of KeplerClient.fetch_metrics, recorded the same way
FetchTracked(use_cache, response) ==
    \E r \in {fetch_metrics(cache, ttl_seconds, now, use_cache, response)} :
        /\ cache' = r.cache
        /\ ret' = [op |-> "fetch", use_cache |-> use_cache,
                   answered |-> response.some, raised |-> r.raised,
                   entry |-> Lookup(cache, "all_metrics")]
        /\ UNCHANGED <<now, ttl_seconds, power_measurement_cache, origin, hist, invoked, getter, calls, basis, decoded>>

FetchPods ==
    \E use_cache \in BOOLEAN :
        \E response \in IF use_cache /\ CacheHit THEN {None} ELSE PodsResponses :
            FetchTracked(use_cache, response)

NextPods == Tick \/ ObservePods \/ FetchPods

SpecPods == Init /\ [][NextPods]_vars

\* ================================================================ properties
\* the last step was a get_pod_power_watts call that returned
Observed == ret.op = "observe" /\ ~ret.raised

\* ... for an entity with a stored measurement; Elapsed is now - baseline time
ObservedWithBaseline == Observed /\ ret.prev.some

Elapsed == ret.at - ret.prev.val.time

Counters == {"total", "cpu", "dram"}

Watts(c) == IF c = "total" THEN ret.result.total_watts
            ELSE IF c = "cpu" THEN ret.result.cpu_watts ELSE ret.result.dram_watts

CurrentJoules(c) == IF c = "total" THEN ret.current.total_joules
                    ELSE IF c = "cpu" THEN ret.current.cpu_joules_total
                    ELSE ret.current.dram_joules_total

JoulesOf(measurement, c) ==
    IF c = "total" THEN measurement.metrics.total_joules
    ELSE IF c = "cpu" THEN measurement.metrics.cpu_joules
    ELSE measurement.metrics.dram_joules

\* the measurement (now, current reading) of the call
CurrentMeasurement ==
    [time |-> ret.at,
     metrics |-> [total_joules |-> ret.current.total_joules,
                  cpu_joules |-> ret.current.cpu_joules_total,
                  dram_joules |-> ret.current.dram_joules_total]]

\* the fraction w equals delta / elapsed (elapsed > 0)
IsQuotient(w, delta, elapsed) == w[2] > 0 /\ w[1] * elapsed = delta * w[2]

AllZero == \A c \in Counters : Watts(c) = Zero

C2_NoRateFromOneSample ==
    (Observed /\ (ret.result.measurement_status = "active" \/ ~AllZero))
        => /\ ret.prev.some
           /\ ret.first.some
           /\ Elapsed >= ret.interval

\* C2 witness: an active call that reports a non-zero power
C2_Witness ==
    /\ Observed
    /\ ret.result.measurement_status = "active"
    /\ ret.result.total_watts # Zero

\* the call is the first one whose elapsed time since the entity's first
\* reading (t0) reaches its interval; every call in between came too soon
FirstAged ==
    /\ Observed
    /\ ret.first.some
    /\ ret.first.val.open
    /\ ret.at - ret.first.val.at.time >= ret.interval

SinceFirst == ret.at - ret.first.val.at.time

\* C3 as stated: after a first Observe at t0 and any number of Observes
\* rejected as too soon, the first Observe whose elapsed time since t0 reaches
\* the minimum interval computes power = (current_joules - joules stored at
\* t0) / (now - t0).
C3_Original ==
    FirstAged =>
        \A c \in Counters :
            Watts(c)[1] * SinceFirst
                = (CurrentJoules(c) - JoulesOf(ret.first.val.at, c)) * Watts(c)[2]

\* C3 amended: that Observe is "active" and measures the joule delta and the
\* elapsed time from the original baseline (t0), never from a rejected sample:
\* when the elapsed time is positive, each power is (current_joules - joules
\* stored at t0) / (now - t0) if that delta is non-negative and 0.0 if it is
\* negative.
C3_FromOriginalBaseline ==
    (FirstAged /\ SinceFirst > 0) =>
        /\ ret.result.measurement_status = "active"
        /\ \A c \in Counters :
            LET delta == CurrentJoules(c) - JoulesOf(ret.first.val.at, c)
            IN  IF delta >= 0 THEN IsQuotient(Watts(c), delta, SinceFirst)
                ELSE Watts(c) = Zero

\* C3 witness: a sample was rejected after t0, and the call that follows it
\* reports a non-zero power over the time since t0
C3_Witness ==
    /\ FirstAged
    /\ ret.first.val.rejected
    /\ SinceFirst > 0
    /\ ret.result.total_watts # Zero

\* C4: a call on an entity with a stored baseline whose elapsed time is below
\* the minimum sampling interval returns all powers 0.0 with status
\* "waiting_for_interval" and leaves the stored baseline unchanged.
C4_TooSoonKeepsBaseline ==
    (ObservedWithBaseline /\ Elapsed < ret.interval) =>
        /\ ret.result = ZeroPower("waiting_for_interval")
        /\ ret.key \in DOMAIN power_measurement_cache
        /\ power_measurement_cache[ret.key] = ret.prev.val

\* C4 witness: a rejected call whose reading differs from the stored one
C4_Witness ==
    /\ ObservedWithBaseline
    /\ Elapsed < ret.interval
    /\ Elapsed > 0
    /\ CurrentMeasurement.metrics # ret.prev.val.metrics

\* C5 as stated: a call on an entity with a stored baseline whose elapsed time
\* is >= the minimum interval returns "active" with power = (current_joules -
\* prior_joules) / elapsed_seconds when the delta is non-negative, and
\* replaces the stored baseline with (now, current reading).
C5_Original ==
    (ObservedWithBaseline /\ Elapsed >= ret.interval) =>
        /\ ret.result.measurement_status = "active"
        /\ \A c \in Counters :
            LET delta == CurrentJoules(c) - JoulesOf(ret.prev.val, c)
            IN  delta >= 0 => Watts(c)[1] * Elapsed = delta * Watts(c)[2]
        /\ power_measurement_cache[ret.key] = CurrentMeasurement

\* C5 amended: the same for a call whose elapsed time is positive and >= the
\* minimum interval (equality included).
C5_ActiveDerivesPower ==
    (ObservedWithBaseline /\ Elapsed >= ret.interval /\ Elapsed > 0) =>
        /\ ret.result.measurement_status = "active"
        /\ \A c \in Counters :
            LET delta == CurrentJoules(c) - JoulesOf(ret.prev.val, c)
            IN  delta >= 0 => IsQuotient(Watts(c), delta, Elapsed)
        /\ ret.key \in DOMAIN power_measurement_cache
        /\ power_measurement_cache[ret.key] = CurrentMeasurement

\* C5 witness: elapsed time equal to a positive interval, a positive delta
C5_Witness ==
    /\ ObservedWithBaseline
    /\ Elapsed = ret.interval
    /\ Elapsed > 0
    /\ CurrentJoules("cpu") > JoulesOf(ret.prev.val, "cpu")

\* C6: a call past the minimum interval that sees a cumulative reading lower
\* than the stored one returns power 0.0 for it and still re-anchors the
\* baseline to the new (lower) reading and the current time.
C6_ResetReanchors ==
    (ObservedWithBaseline /\ Elapsed >= ret.interval) =>
        \A c \in Counters :
            CurrentJoules(c) < JoulesOf(ret.prev.val, c) =>
                /\ Watts(c) = Zero
                /\ ret.key \in DOMAIN power_measurement_cache
                /\ power_measurement_cache[ret.key] = CurrentMeasurement

\* C6 witness: the total counter went down between two calls an interval apart
C6_Witness ==
    /\ ObservedWithBaseline
    /\ Elapsed >= ret.interval
    /\ Elapsed > 0
    /\ CurrentJoules("total") < JoulesOf(ret.prev.val, "total")

\* C7: for every call on an entity with a stored baseline where the elapsed
\* time is <= 0, whatever minimum interval is passed (0 and negative values
\* included), all returned powers are 0.0 and the stored baseline is not
\* updated.
C7_NonPositiveElapsedKeepsBaseline ==
    (ObservedWithBaseline /\ Elapsed <= 0) =>
        /\ AllZero
        /\ power_measurement_cache[ret.key] = ret.prev.val

\* C8: in every result with status "active", total_watts = cpu_watts +
\* dram_watts, also when one zone's counter decreased while the other's
\* increased.
C8_TotalIsSumOfZones ==
    (Observed /\ ret.result.measurement_status = "active") =>
        ret.result.total_watts = RatAdd(ret.result.cpu_watts, ret.result.dram_watts)

\* C9: the first call for an entity key with no stored reading returns all
\* powers 0.0 with status "initializing" and stores (now, current joules) as
\* that entity's baseline.
C9_FirstObserveInitializes ==
    (Observed /\ ~ret.prev.some) =>
        /\ ret.result = ZeroPower("initializing")
        /\ ret.key \in DOMAIN power_measurement_cache
        /\ power_measurement_cache[ret.key] = CurrentMeasurement

\* C9 witness: a first call that reads non-zero counters at a non-zero time
C9_Witness ==
    /\ Observed
    /\ ~ret.prev.some
    /\ ret.current.cpu_joules_total > 0
    /\ ret.current.dram_joules_total > 0
    /\ ret.at > 0

\* C10: KeplerMetricsCache.get(key) returns a snapshot exactly when an entry
\* for key exists and now - captured_at <= ttl (age equal to ttl is a hit), and
\* the snapshot it returns is that entry's; an older entry is never returned.
C10_GetHitsIffFresh ==
    ret.op = "get" =>
        /\ ret.result.some <=>
              (ret.entry.some /\ ret.at - ret.entry.val.timestamp <= ttl_seconds)
        /\ ret.result.some => ret.result.val = ret.entry.val.metrics

\* C10 witness: a hit on an entry whose age equals ttl
C10_Witness ==
    /\ ret.op = "get"
    /\ ret.entry.some
    /\ ret.at - ret.entry.val.timestamp = ttl_seconds
    /\ ttl_seconds > 0
    /\ ret.result.some

\* ... for a key with a history; the most recent set of the key was at PutAt
GetWithHistory == ret.op = "get" /\ ret.before.some

PutAt == ret.before.val.at.val

\* C11: a get(key) that finds an entry older than ttl removes it, and once
\* get(key) has returned None every later get(key) returns None until the
\* next set(key, ...): an expired entry does not come back.
C11_StaleGetEvictsForGood ==
    ret.op = "get" =>
        /\ (ret.entry.some /\ ret.at - ret.entry.val.timestamp > ttl_seconds)
              => (~ret.result.some /\ ret.key \notin DOMAIN cache)
        /\ (ret.before.some /\ ret.before.val.event = "miss") => ~ret.result.some

\* C11 witness: after a get evicted the entry the clock went back into the
\* ttl window of its set, and get(key) still returns None
C11_Witness ==
    /\ GetWithHistory
    /\ ret.before.val.event = "miss"
    /\ ret.before.val.evicted
    /\ ret.at >= PutAt
    /\ ret.at - PutAt <= ttl_seconds
    /\ ~ret.result.some

\* C12 as stated: every get(key) made within ttl of the most recent
\* set(key, s) returns exactly s
C12_Original ==
    (GetWithHistory /\ ret.before.val.at.some /\ ret.at >= PutAt
                    /\ ret.at - PutAt <= ttl_seconds)
        => /\ ret.result.some
           /\ ret.before.val.event = "put" => ret.result.val = ret.before.val.metrics

\* C12: set(key, s) replaces whatever entry key had by (time of the set, s),
\* and a get(key) within ttl of the most recent set returns exactly s provided
\* no clear and no get(key) that returned None came after that set.
C12_PutReplacesAndStamps ==
    /\ ret.op = "set" =>
          /\ ret.key \in DOMAIN cache
          /\ cache[ret.key] = [timestamp |-> ret.at, metrics |-> ret.metrics]
    /\ (GetWithHistory /\ ret.before.val.event = "put"
                       /\ ret.at - PutAt <= ttl_seconds)
          => ret.result = Some(ret.before.val.metrics)

\* C12 witness: a set over an older entry that holds another snapshot
C12_Witness ==
    /\ ret.op = "set"
    /\ ret.entry.some
    /\ ret.entry.val.timestamp < ret.at
    /\ ret.entry.val.metrics # ret.metrics
    /\ cache[ret.key].metrics = ret.metrics

\* C13: clear() removes every entry, however fresh: after it get(key) returns
\* None for every key until the next set(key, ...).
C13_ClearRemovesEverything ==
    /\ ret.op = "clear" => cache = EmptyDict
    /\ (GetWithHistory /\ ret.before.val.event = "clear") => ~ret.result.some

\* C13 witness: a clear that found every key stored, one of them within ttl
C13_Witness ==
    /\ ret.op = "clear"
    /\ DOMAIN ret.entries = CacheKeys
    /\ \E key \in CacheKeys : ret.at - ret.entries[key].timestamp <= ttl_seconds
    /\ cache = EmptyDict

\* a fetch_metrics call found a snapshot it may serve: use_cache is set and
\* the stored entry is not older than ttl
ValidSnapshot ==
    /\ ret.use_cache
    /\ ret.entry.some
    /\ ret.at - ret.entry.val.timestamp <= ttl_seconds

\* C14 as stated: two HTTP GETs made by fetch_metrics calls with
\* use_cache=True are always more than ttl seconds apart
C14_Original ==
    (ret.op = "fetch" /\ ret.use_cache /\ ret.fetched /\ ret.before.last_cached.some)
        => ret.at - ret.before.last_cached.val > ttl_seconds

\* C14: fetch_metrics with use_cache=True makes the HTTP GET exactly when the
\* cache lookup misses and otherwise returns the cached snapshot; every GET
\* that answers stores its decoded snapshot under the time of the call; so a
\* GET made with use_cache=True comes more than ttl seconds after the previous
\* GET whenever that previous GET had answered.
C14_FetchOnlyOnMiss ==
    ret.op = "fetch" =>
        /\ ret.fetched <=> ~ValidSnapshot
        /\ ValidSnapshot => (~ret.raised /\ ret.metrics = Some(ret.entry.val.metrics))
        /\ (ret.fetched /\ ~ret.raised) =>
              /\ "all_metrics" \in DOMAIN cache
              /\ cache["all_metrics"] = [timestamp |-> ret.at, metrics |-> ret.metrics.val]
        /\ (ret.use_cache /\ ret.fetched /\ ret.before.last.some /\ ret.before.last.val.ok)
              => ret.at - ret.before.last.val.at > ttl_seconds

\* C14 witness: a call with use_cache=True that makes the GET because the
\* snapshot stored by the previous, answered GET has become older than ttl
C14_Witness ==
    /\ ret.op = "fetch"
    /\ ret.use_cache
    /\ ret.fetched
    /\ ~ret.raised
    /\ ret.entry.some
    /\ ret.before.last.some
    /\ ret.before.last.val.ok
    /\ ret.entry.val.timestamp = ret.before.last.val.at

\* C15: aggregate_metrics with an aggregation outside sum, avg, min, max
\* raises for every record list, name and labels, also when no record is
\* selected; it never returns a number.
C15_UnknownOperatorRaises ==
    (ret.op = "aggregate" /\ ret.aggregation \notin Aggregations) => ret.result.raised

\* the records filter_metrics selects for the arguments of the aggregate call
Selected == filter_metrics(ret.metrics, Some(ret.name), ret.labels)

\* C16: for each of sum, avg, min and max, aggregate_metrics returns 0.0 when
\* the name and label filter selects no record; avg does not divide by zero
\* and min and max do not raise.
C16_EmptyAggregatesToZero ==
    (ret.op = "aggregate" /\ ret.aggregation \in Aggregations /\ Selected = << >>)
        => ret.result = [raised |-> FALSE, value |-> 0]

\* C16 witness: avg over a list that has records, none of them selected
C16_Witness ==
    /\ ret.op = "aggregate"
    /\ ret.aggregation = "avg"
    /\ ret.metrics # << >>
    /\ Selected = << >>
    /\ ret.result = [raised |-> FALSE, value |-> 0]

\* a record passes the filter: its name is the given one, and it carries
\* every pair of the given labels (it may carry more)
Matches(m, name, labels) ==
    /\ name.some => m.name = name.val
    /\ labels.some =>
          \A k \in DOMAIN labels.val : k \in DOMAIN m.labels /\ m.labels[k] = labels.val[k]

\* C20: filter_metrics returns exactly the records, in their order, whose
\* name equals the given name (for every name string) and whose labels contain
\* every given pair; extra labels never exclude a record.
C20_FilterExact ==
    ret.op = "filter" =>
        LET Pass(m) == Matches(m, ret.name, ret.labels)
        IN  ret.result = SelectSeq(ret.metrics, Pass)

\* C18: whatever way the statements of a get interleave with set and clear
\* calls, the entry of a completed set(key, s) is the one stored for key for
\* as long as it is within ttl and no clear and no get(key) that returned None
\* came after the set: a get that examined an older entry evicts only that
\* entry, so a get issued now returns s.
C18_FreshEntryNotEvicted ==
    \A key \in DOMAIN hist :
        (hist[key].event = "put" /\ now - hist[key].at.val <= ttl_seconds)
            => /\ key \in DOMAIN cache
               /\ cache[key] = [timestamp |-> hist[key].at.val,
                                metrics |-> hist[key].metrics]

\* caller c has returned from a call that wrote the measurement of its key
Wrote(c) == calls[c].pc = "done" /\ calls[c].wrote

\* C17: whatever way the statements of concurrent get_pod_power_watts calls
\* on one key interleave, the stored measurement is the (time, joules) pair of
\* one call that wrote it: the time that call sampled together with the
\* counters that call read, never the time of one call with the counters of
\* another.
C17_BaselineFromOneCall ==
    \A key \in DOMAIN power_measurement_cache :
        \E c \in Callers :
            /\ Wrote(c)
            /\ calls[c].key = key
            /\ power_measurement_cache[key] =
                   Measurement(calls[c].current_time, calls[c].current_metrics)

\* C17 witness: two calls that sampled different times and read different
\* counters overlapped, both wrote, and the write of the earlier one came last
C17_Witness ==
    \E c \in Callers, d \in Callers :
        /\ Wrote(c) /\ Wrote(d)
        /\ calls[c].key = calls[d].key
        /\ calls[c].current_time < calls[d].current_time
        /\ calls[c].current_metrics.total_joules # calls[d].current_metrics.total_joules
        /\ power_measurement_cache[calls[c].key] =
               Measurement(calls[c].current_time, calls[c].current_metrics)

\* C19: the calls on one key take effect in the order they were issued: once
\* a call that sampled time t has written the measurement, the stored time is
\* never below t, whatever way the calls interleave.
C19_BaselineTimeNeverBackwards ==
    \A c \in Callers :
        Wrote(c) => power_measurement_cache[calls[c].key].time >= calls[c].current_time

\* record i of the list of a get_metric_value call passes its name and label
\* filter
Passes(i) == filter_metrics(<<ret.metrics[i]>>, Some(ret.name), ret.labels) # << >>

\* C21: get_metric_value returns the value of the first record of the list,
\* in list order, that passes the name and label filter, and the default
\* exactly when no record passes.
C21_FirstMatchOrDefault ==
    ret.op = "value" =>
        IF \E i \in 1..Len(ret.metrics) : Passes(i)
        THEN \E i \in 1..Len(ret.metrics) :
                /\ Passes(i)
                /\ \A j \in 1..(i - 1) : ~Passes(j)
                /\ ret.result = ret.metrics[i].value
        ELSE ret.result = ret.default

\* C21 witness: two records pass, with different values, and the value of the
\* first one is returned
C21_Witness ==
    /\ ret.op = "value"
    /\ Len(ret.metrics) = 2
    /\ Passes(1) /\ Passes(2)
    /\ ret.metrics[1].value # ret.metrics[2].value
    /\ ret.result = ret.metrics[1].value
    /\ ret.result # ret.default

\* a line the format accepts: the line pattern matches, the value is a float
\* or a special value, and the timestamp, if any, is one int() reads
ValidLine(line) ==
    /\ line.kind = "sample"
    /\ line.value.tok \in {"float", "NaN", "+Inf", "-Inf"}
    /\ line.timestamp.some => line.timestamp.val.digits = "short"

\* the decoded text with every other line deleted
ValidLines == SelectSeq(ret.text, ValidLine)

\* C22: for every text mixing valid, malformed, comment and blank lines,
\* parse_prometheus_text does not raise and returns exactly the records of
\* the valid lines, in their order.
C22_FaultIsolating ==
    ret.op = "decode" =>
        /\ ~ret.outcome.raised
        /\ ret.outcome.result =
               [i \in 1..Len(ValidLines) |-> parse_metric_line(ValidLines[i]).val]

\* the <<key, value>> pairs written in the label list of a line
LabelPairs(line) == IF line.labels.some THEN line.labels.val ELSE << >>

\* labels holds one entry per key of pairs, with the value of the key's last pair
LastWriteWins(labels, pairs) ==
    /\ DOMAIN labels = {pairs[j][1] : j \in DOMAIN pairs}
    /\ \A j \in DOMAIN pairs :
          (\A k \in DOMAIN pairs : k > j => pairs[k][1] # pairs[j][1])
              => labels[pairs[j][1]] = pairs[j][2]

\* C24: when a line repeats a label key, its record holds one entry for the
\* key, with the value of the last occurrence in the line.
C24_LastLabelWins ==
    (ret.op = "decode" /\ ~ret.outcome.raised) =>
        /\ Len(ret.outcome.result) = Len(ValidLines)
        /\ \A i \in 1..Len(ValidLines) :
              LastWriteWins(ret.outcome.result[i].labels, LabelPairs(ValidLines[i]))

\* C24 witness: a line gives zone twice, "package" then "dram", with another
\* label in between, and the record holds zone = "dram"
C24_Witness ==
    /\ ret.op = "decode"
    /\ ~ret.outcome.raised
    /\ \E i \in 1..Len(ret.outcome.result) :
          /\ LabelPairs(ValidLines[i])[1] = <<"zone", "package">>
          /\ Len(LabelPairs(ValidLines[i])) = 3
          /\ ret.outcome.result[i].labels["zone"] = "dram"
          /\ DOMAIN ret.outcome.result[i].labels = {"zone", "pod_name"}

\* the text of this decode is the one that was decoded first
DecodedBefore ==
    /\ ret.op = "decode_again"
    /\ ret.first.some
    /\ ret.first.val.text = ret.text

Initializers ==
    {c \in Callers : calls[c].pc = "done" /\ ~calls[c].raised
                     /\ calls[c].status = "initializing"}

\* C25: over every interleaving of get_pod_power_watts calls on one key whose
\* fetch succeeds, at most one call returns "initializing", and once all have
\* returned exactly one has; the others return "waiting_for_interval" or
\* "active", and the key keeps its stored reading.
C25_InitializingOnce ==
    /\ Cardinality(Initializers) <= 1
    /\ (\A c \in Callers : calls[c].pc = "done" /\ ~calls[c].raised)
          => /\ Cardinality(Initializers) = 1
             /\ \A c \in Callers : calls[c].key \in DOMAIN power_measurement_cache

\* a call served without a fetch by the very cache entry that served the call
\* which stored the reading of its key: no fetch came in between
SameSnapshot ==
    /\ ObservedWithBaseline
    /\ ~ret.fetched
    /\ ret.basis = Some(cache["all_metrics"])

\* what the second of two calls served by one snapshot does: "active", every
\* power exactly 0.0, the stored joules as before
StaleReading ==
    /\ ret.result.measurement_status = "active"
    /\ AllZero
    /\ ret.key \in DOMAIN power_measurement_cache
    /\ power_measurement_cache[ret.key].metrics = ret.prev.val.metrics

\* C26 as stated: when two get_pod_power_watts calls for one entity are at
\* least the minimum interval apart and both served from the same cached
\* snapshot, the second returns "active" with all powers 0.0 and moves the
\* baseline timestamp forward while the baseline joules stay the same.
C26_Original ==
    (SameSnapshot /\ Elapsed >= ret.interval) =>
        /\ StaleReading
        /\ power_measurement_cache[ret.key].time > ret.prev.val.time

\* C26 amended: the same for two calls a positive time and at least the
\* minimum interval apart; the baseline timestamp becomes the time of the
\* second call, which is later than the one stored.
C26_StaleSnapshotZeroPower ==
    (SameSnapshot /\ Elapsed >= ret.interval /\ Elapsed > 0) =>
        /\ StaleReading
        /\ power_measurement_cache[ret.key].time = ret.at
        /\ power_measurement_cache[ret.key].time > ret.prev.val.time

\* C26 witness: the second call comes a positive minimum interval after the
\* first, is served by the same snapshot, and the counters it reads are not 0
C26_Witness ==
    /\ SameSnapshot
    /\ ret.interval > 0
    /\ Elapsed >= ret.interval
    /\ ret.current.total_joules > 0
    /\ AllZero

\* the records of a snapshot that belong to the pod of an entity key
PodRecords(metrics, key) ==
    filter_metrics(metrics, Some("kepler_pod_cpu_joules_total"),
                   Some([pod_name |-> key[3], pod_namespace |-> key[2]]))

\* the snapshot that served the call holds no record of the pod
Absent == Observed /\ PodRecords(cache["all_metrics"].metrics, ret.key) = << >>

\* the first call for a pod the snapshot has no record of stores a baseline
\* of 0 joules and returns "initializing"
AbsentInitializes ==
    (Absent /\ ~ret.prev.some) =>
        /\ ret.result.measurement_status = "initializing"
        /\ ret.key \in DOMAIN power_measurement_cache
        /\ power_measurement_cache[ret.key].time = ret.at
        /\ \A c \in Counters : JoulesOf(power_measurement_cache[ret.key], c) = 0

\* a call that finds records of the pod, whose stored reading comes from a
\* snapshot without any
Appeared ==
    /\ ObservedWithBaseline
    /\ ret.basis.some
    /\ PodRecords(ret.basis.val.metrics, ret.key) = << >>
    /\ ~Absent

\* C29 as stated: a pod with no matching records in the snapshot is tracked
\* as reading 0 joules: its first call stores a baseline of 0 joules and
\* returns "initializing", and when the pod later appears with cumulative
\* counter J at a call past the minimum interval, the total power reported is
\* J / elapsed_seconds.
C29_Original ==
    /\ AbsentInitializes
    /\ (Appeared /\ Elapsed >= ret.interval) =>
          Watts("total")[1] * Elapsed = ret.current.total_joules * Watts("total")[2]

\* C29 amended: the same, the total power being J / elapsed_seconds when the
\* pod appears at a call a positive time and at least the minimum interval
\* after the stored reading.
C29_AbsentPodCountsFromZero ==
    /\ AbsentInitializes
    /\ (Appeared /\ Elapsed >= ret.interval /\ Elapsed > 0) =>
          /\ JoulesOf(ret.prev.val, "total") = 0
          /\ IsQuotient(Watts("total"), ret.current.total_joules, Elapsed)

\* C29 witness: a pod absent at its first call appears with a positive
\* counter a positive minimum interval later, and power is reported
C29_Witness ==
    /\ Appeared
    /\ ret.interval > 0
    /\ Elapsed >= ret.interval
    /\ ret.current.total_joules > 0
    /\ Watts("total") # Zero

\* a fetch_metrics(use_cache=True) call that finds a stored snapshot of zero
\* records not older than ttl
EmptySnapshotCached ==
    /\ ret.op = "fetch"
    /\ ValidSnapshot
    /\ ret.entry.val.metrics = << >>

\* C30: an empty decoded snapshot is a valid cache entry: within ttl of the
\* fetch that stored it, fetch_metrics(use_cache=True) returns the empty
\* snapshot as a cache hit and makes no HTTP GET; the entry stays as it is.
C30_EmptySnapshotHits ==
    EmptySnapshotCached =>
        /\ ~ret.fetched
        /\ ~ret.raised
        /\ ret.metrics = Some(<< >>)
        /\ invoked = ret.before
        /\ Lookup(cache, "all_metrics") = ret.entry

\* C30 witness: the call right after the GET that answered with a scrape of
\* no records, made at a later time within ttl
C30_Witness ==
    /\ EmptySnapshotCached
    /\ ret.before.last.some
    /\ ret.before.last.val.ok
    /\ ret.before.last.val.at = ret.entry.val.timestamp
    /\ ret.at > ret.entry.val.timestamp
    /\ ret.metrics = Some(<< >>)

\* the call looked the snapshot up (get_pod_power_watts always does) and
\* found one not older than ttl
ServedFromCache ==
    /\ ret.op = "observe" \/ ret.use_cache
    /\ ret.entry.some
    /\ now - ret.entry.val.timestamp <= ttl_seconds

\* the last step was a call whose HTTP GET was made and failed
FetchFailed ==
    /\ ret.op \in {"observe", "fetch"}
    /\ ~ServedFromCache
    /\ ~ret.answered

\* C27: when the HTTP GET fails, fetch_metrics raises and stores no snapshot
\* in the cache (the cache holds nothing that was not there before the call),
\* and a get_pod_power_watts call that hits the failure raises too and leaves
\* the stored reading of every entity exactly as it was.
C27_FailedFetchStoresNothing ==
    FetchFailed =>
        /\ ret.raised
        /\ "all_metrics" \in DOMAIN cache => Lookup(cache, "all_metrics") = ret.entry
        /\ ret.op = "observe" => power_measurement_cache = ret.tracker

\* C27 witness: a get_pod_power_watts call fails while both pods have a
\* stored reading and the cache holds a snapshot older than ttl
C27_Witness ==
    /\ FetchFailed
    /\ ret.raised
    /\ ret.op = "observe"
    /\ ret.entry.some
    /\ \A pod_name \in TrackedPods : PodKey(pod_name, "default") \in DOMAIN ret.tracker
    /\ power_measurement_cache = ret.tracker

\* the entity keys other than the one of the call
OtherKeys == (DOMAIN ret.tracker \cup DOMAIN power_measurement_cache) \ {ret.key}

\* C28: a get_pod_power_watts call for one (namespace, pod) leaves the stored
\* reading of every other entity key unchanged (none added, none removed,
\* none altered), whatever status it returns and also when it raises.
C28_ObserveIsLocal ==
    ret.op = "observe" =>
        \A k \in OtherKeys :
            /\ k \in DOMAIN ret.tracker
            /\ k \in DOMAIN power_measurement_cache
            /\ power_measurement_cache[k] = ret.tracker[k]

\* C28 witness: a call that replaces the stored reading of its own key while
\* another key has one
C28_Witness ==
    /\ ret.op = "observe"
    /\ ret.status = Some("active")
    /\ OtherKeys # {}
    /\ power_measurement_cache[ret.key] # ret.tracker[ret.key]
    /\ \A k \in OtherKeys : power_measurement_cache[k] = ret.tracker[k]

=============================================================================
